---- MODULE Spec2Model ----
(***************************************************************************)
(* Client-side task synchronisation of the To-Do app                       *)
(* (frontend_app/src/App.js, components/TaskModal.js, api/tasksApi.js).    *)
(*                                                                         *)
(* The React component state of App is the state of the machine.  Every    *)
(* async handler is split at its await: the part before the await is the   *)
(* intent action, the part after it (try / catch / finally) is the         *)
(* settlement action.  A remote call in flight is an element of `calls`;   *)
(* the REST service answers it in a step of its own, so that responses     *)
(* can be produced and delivered in any order.                             *)
(***************************************************************************)
EXTENDS Integers, Sequences, FiniteSets, TLC

VARIABLES
    tasks,        \* useState([])            App.js:22
    loading,      \* useState(true)          App.js:23
    loadError,    \* useState(null)          App.js:24
    modalOpen,    \* useState(false)         App.js:29
    modalMode,    \* useState("add")         App.js:30
    activeTask,   \* useState(null)          App.js:31
    saving,       \* useState(false)         App.js:33
    modalError,   \* useState(null)          App.js:34
    deletingIds,  \* useState(new Set())     App.js:36
    calls,        \* remote calls in flight, in the order they were issued
    server,       \* the records held by the REST service
    nextId,       \* the next id the REST service assigns
    issued,       \* number of remote calls issued by user intents so far
    last          \* the App step taken last (history, read by the properties only)

vars == <<tasks, loading, loadError, modalOpen, modalMode, activeTask, saving,
          modalError, deletingIds, calls, server, nextId, issued, last>>

-----------------------------------------------------------------------------
(* Bounds of the model *)

\* user-initiated remote calls in one behaviour (the mount refresh is extra)
MaxIssued == 2

-----------------------------------------------------------------------------
(* Values *)

\* JavaScript null / undefined
Null == "null"

\* A text is a sequence of one-character strings.
Space == " "

\* A record standing for "no task" (null activeTask, unused closure slot).
NoTask == [id |-> 0, title |-> <<>>, description |-> <<>>, status |-> "none"]

\* The title the REST service may normalise a submitted title to.
ServerTitle == <<"n">>

\* The records the REST service holds when the page is mounted.
InitialServer ==
    { [id |-> 1, title |-> <<"a">>, description |-> <<>>, status |-> "pending"],
      [id |-> 2, title |-> <<"b">>, description |-> <<"d">>, status |-> "completed"] }

\* What the user may have typed in the modal's fields when pressing submit.
FormInputs ==
    { [title |-> <<" ", "c">>, description |-> <<"d", " ">>, status |-> "completed"],
      [title |-> <<" ">>,      description |-> <<>>,          status |-> "pending"] }

\* The values a failed remote call may throw: Error objects.
Thrown ==
    { [type |-> "Error", message |-> "Request failed with 500 "],
      [type |-> "Error", message |-> ""] }

NoError == [type |-> "none", message |-> ""]

-----------------------------------------------------------------------------
(* Pure helpers *)

RECURSIVE TrimLeft(_)
TrimLeft(s) == IF s # <<>> /\ Head(s) = Space THEN TrimLeft(Tail(s)) ELSE s

RECURSIVE TrimRight(_)
TrimRight(s) ==
    IF s # <<>> /\ s[Len(s)] = Space THEN TrimRight(SubSeq(s, 1, Len(s) - 1)) ELSE s

\* String.prototype.trim
Trim(s) == TrimRight(TrimLeft(s))

\* x || d on a text: the empty string is falsy
OrText(x, d) == IF x = <<>> THEN d ELSE x

\* x || d on a status string: the empty string and undefined are falsy
OrStatus(x, d) == IF x = "" \/ x = Null THEN d ELSE x

\* t.f || "" on the text field f of an object: a missing field is undefined
TextOr(t, f) == IF f \in DOMAIN t THEN OrText(t[f], <<>>) ELSE <<>>

\* t.status || d: a missing field is undefined
StatusOr(t, d) == IF "status" \in DOMAIN t THEN OrStatus(t.status, d) ELSE d

\* the sequence s without its i-th element
RemoveAt(s, i) == SubSeq(s, 1, i - 1) \o SubSeq(s, i + 1, Len(s))

\* the records of collection s whose id is id, in order
RecordsOf(s, id) == LET Has(t) == t.id = id IN SelectSeq(s, Has)

IdsOf(s) == { s[k].id : k \in 1..Len(s) }

\* Faulty variant of normalizeError: no fallback for an empty message.
normalizeError_messageOnly(err) ==
    IF err.type = "null" THEN "Unknown error" ELSE err.message

normalizeError(err) ==
    IF err.type = "null" THEN "Unknown error"
    ELSE IF err.type = "string" THEN err.message
    ELSE IF err.message # "" THEN err.message
    ELSE "Request failed"

-----------------------------------------------------------------------------
(* The state updates of the handlers (the functions handed to setTasks and *)
(* setDeletingIds).  prev.map(f) is [k \in DOMAIN prev |-> f(prev[k])] and *)
(* prev.filter(p) is SelectSeq(prev, p).                                   *)

\* refresh: setTasks(Array.isArray(data?.tasks) ? data.tasks : [])
RefreshTasks(data) == IF data.isArray THEN data.tasks ELSE <<>>

\* Faulty variant of CreateInsert: the created task is put at the end.
CreateInsert_append(prev, created) == prev \o <<created>>

\* handleSubmitModal, add: setTasks(prev => [created, ...prev])
CreateInsert(prev, created) == <<created>> \o prev

\* handleSubmitModal, edit: setTasks(prev => prev.map(t => t.id === id ? updated : t))
ReplaceMap(prev, id, updated) ==
    LET F(t) == IF t.id = id THEN updated ELSE t IN [k \in DOMAIN prev |-> F(prev[k])]

\* handleToggleStatus: const nextStatus = ...
NextStatus(task) == IF task.status = "completed" THEN "pending" ELSE "completed"

\* Faulty variant of ToggleOptimistic: the map forgets the id test and flips
\* every record.
ToggleOptimistic_all(prev, task) ==
    [k \in DOMAIN prev |-> [prev[k] EXCEPT !.status = NextStatus(task)]]

\* handleToggleStatus, optimistic update
ToggleOptimistic(prev, task) ==
    LET F(t) == IF t.id = task.id THEN [t EXCEPT !.status = NextStatus(task)] ELSE t
    IN  [k \in DOMAIN prev |-> F(prev[k])]

\* Faulty variant of ToggleConfirm: a response is dropped when the record no
\* longer shows the optimistic status (responses applied only in issue order).
ToggleConfirm_ifUnchanged(prev, task, updated) ==
    LET F(t) == IF t.id = task.id /\ t.status = NextStatus(task) THEN updated ELSE t
    IN  [k \in DOMAIN prev |-> F(prev[k])]

\* handleToggleStatus, success
ToggleConfirm(prev, task, updated) ==
    LET F(t) == IF t.id = task.id THEN updated ELSE t IN [k \in DOMAIN prev |-> F(prev[k])]

\* Faulty variant of ToggleRevert: only the flipped field is put back.
ToggleRevert_statusOnly(prev, task) ==
    LET F(t) == IF t.id = task.id THEN [t EXCEPT !.status = task.status] ELSE t
    IN  [k \in DOMAIN prev |-> F(prev[k])]

\* handleToggleStatus, revert on error
ToggleRevert(prev, task) ==
    LET F(t) == IF t.id = task.id THEN task ELSE t IN [k \in DOMAIN prev |-> F(prev[k])]

\* Faulty variant of DeleteOptimistic: the record is left in the collection
\* until the call settles.
DeleteOptimistic_none(prev, id) == prev

\* handleDelete, optimistic remove
DeleteOptimistic(prev, id) == LET Keep(t) == t.id # id IN SelectSeq(prev, Keep)

\* Faulty variant of DeleteRestore: the spread of prev is forgotten.
DeleteRestore_alone(prev, task) == <<task>>

\* handleDelete, restore on error
DeleteRestore(prev, task) == <<task>> \o prev

\* handleDelete: setDeletingIds(prev => new Set(prev).add(id))
DeletingAdd(prev, id) == prev \cup {id}

\* Faulty variant of DeletingClear: the copy is returned without the delete.
DeletingClear_keep(prev, id) == prev

\* handleDelete, finally: n.delete(id)
DeletingClear(prev, id) == prev \ {id}

-----------------------------------------------------------------------------
(* Remote calls in flight (api/tasksApi.js)                                *)

NoData == [isArray |-> FALSE, tasks |-> <<>>]

\* A call as issued: op and id name the endpoint, body is the JSON body sent,
\* task is the handler's closure variable `task` (NoTask where it has none).
\* phase is "sent" until the service has answered, then "ok" or "err";
\* data / list / err hold the answer.  ov is history: whether another call
\* on the same id settled while this one was pending, and which was issued first.
Call(op, id, task, body) ==
    [op |-> op, id |-> id, task |-> task, body |-> body, phase |-> "sent",
     data |-> NoTask, list |-> NoData, err |-> NoError, ov |-> "no"]

NoCall == Call("none", 0, NoTask, NoTask)

\* listTasks
listTasks == Call("list", 0, NoTask, NoTask)

\* createTask(payload)
createTask(payload) == Call("create", 0, NoTask, payload)

\* updateTask(id, payload)
updateTask(id, payload) == Call("update", id, NoTask, payload)

\* patchTask(id, payload), called from handleToggleStatus(task)
patchTask(id, payload, task) == Call("patch", id, task, payload)

\* deleteTask(id), called from handleDelete(task)
deleteTask(id, task) == Call("delete", id, task, NoTask)

Settled(c) == c.phase \in {"ok", "err"}

Evt(op, c) == [op |-> op, call |-> c]

-----------------------------------------------------------------------------
(* The REST service (spec section 6): GET/POST /tasks, PUT/PATCH/DELETE    *)
(* /tasks/{id}.  It holds at most one record per id and assigns fresh ids. *)

RECURSIVE SortById(_)
SortById(S) ==
    IF S = {} THEN <<>>
    ELSE LET m == CHOOSE r \in S : \A q \in S : r.id <= q.id
         IN  <<m>> \o SortById(S \ {m})

\* GET /tasks
ServerList == [isArray |-> TRUE, tasks |-> SortById(server)]

ServerHas(id) == \E r \in server : r.id = id

ServerGet(id) == CHOOSE r \in server : r.id = id

\* the titles the service may store for a submitted title
ServerTitles(title) == {title, ServerTitle}

\* The service answers call i with a success response.
ServerOk(i) ==
    /\ i \in 1..Len(calls)
    /\ calls[i].phase = "sent"
    /\ LET c == calls[i] IN
       \/ /\ c.op = "list"
          /\ calls' = [calls EXCEPT ![i].phase = "ok", ![i].list = ServerList]
          /\ UNCHANGED <<server, nextId>>
       \/ /\ c.op = "create"
          /\ \E ttl \in ServerTitles(c.body.title) :
               LET rec == [id |-> nextId, title |-> ttl,
                           description |-> c.body.description,
                           status |-> c.body.status]
               IN  /\ server' = server \cup {rec}
                   /\ calls' = [calls EXCEPT ![i].phase = "ok", ![i].data = rec]
          /\ nextId' = nextId + 1
       \/ /\ c.op = "update"
          /\ ServerHas(c.id)
          /\ \E ttl \in ServerTitles(c.body.title) :
               LET rec == [id |-> c.id, title |-> ttl,
                           description |-> c.body.description,
                           status |-> c.body.status]
               IN  /\ server' = (server \ {ServerGet(c.id)}) \cup {rec}
                   /\ calls' = [calls EXCEPT ![i].phase = "ok", ![i].data = rec]
          /\ UNCHANGED nextId
       \/ /\ c.op = "patch"
          /\ ServerHas(c.id)
          /\ LET rec == [ServerGet(c.id) EXCEPT !.status = c.body.status]
             IN  /\ server' = (server \ {ServerGet(c.id)}) \cup {rec}
                 /\ calls' = [calls EXCEPT ![i].phase = "ok", ![i].data = rec]
          /\ UNCHANGED nextId
       \/ /\ c.op = "delete"
          /\ ServerHas(c.id)
          /\ server' = server \ {ServerGet(c.id)}
          /\ calls' = [calls EXCEPT ![i].phase = "ok"]
          /\ UNCHANGED nextId
    /\ UNCHANGED <<tasks, loading, loadError, modalOpen, modalMode, activeTask,
                   saving, modalError, deletingIds, issued, last>>

\* GET /tasks answers 2xx with a body that carries no tasks array.
ServerListMalformed(i) ==
    /\ i \in 1..Len(calls)
    /\ calls[i].phase = "sent"
    /\ calls[i].op = "list"
    /\ calls' = [calls EXCEPT ![i].phase = "ok", ![i].list = NoData]
    /\ UNCHANGED <<tasks, loading, loadError, modalOpen, modalMode, activeTask,
                   saving, modalError, deletingIds, server, nextId, issued, last>>

\* Call i fails: the service rejects it (non-2xx) or the transport fails;
\* request() throws e.  The service's records are unchanged.
ServerFail(i, e) ==
    /\ i \in 1..Len(calls)
    /\ calls[i].phase = "sent"
    /\ calls' = [calls EXCEPT ![i].phase = "err", ![i].err = e]
    /\ UNCHANGED <<tasks, loading, loadError, modalOpen, modalMode, activeTask,
                   saving, modalError, deletingIds, server, nextId, issued, last>>

-----------------------------------------------------------------------------
(* What the part of each handler after its await writes to `tasks`, given   *)
(* the settled call c                                                       *)

\* Faulty variant of RefreshSettleTasks: the list is merged into the held
\* records instead of replacing them.
RefreshSettleTasks_merge(prev, c) ==
    IF c.phase = "ok"
    THEN LET New(t) == t.id \notin IdsOf(prev)
         IN  prev \o SelectSeq(RefreshTasks(c.list), New)
    ELSE prev

\* refresh: try { setTasks(...) } catch { setLoadError }
RefreshSettleTasks(prev, c) ==
    IF c.phase = "ok" THEN RefreshTasks(c.list) ELSE prev

\* Faulty variant of SubmitSettleTasks: a failed replace drops the record.
SubmitSettleTasks_dropOnFailure(prev, c) ==
    IF c.phase = "ok"
    THEN IF c.op = "create" THEN CreateInsert(prev, c.data)
                            ELSE ReplaceMap(prev, c.id, c.data)
    ELSE IF c.op = "create" THEN prev ELSE DeleteOptimistic(prev, c.id)

\* Faulty variant of SubmitSettleTasks: the payload sent is written, not the
\* representation returned.
SubmitSettleTasks_payload(prev, c) ==
    IF c.phase = "ok"
    THEN IF c.op = "create"
         THEN CreateInsert(prev, c.data)
         ELSE ReplaceMap(prev, c.id,
                         [id |-> c.id, title |-> c.body.title,
                          description |-> c.body.description,
                          status |-> c.body.status])
    ELSE prev

\* handleSubmitModal: try { setTasks(...) } catch { setModalError }
SubmitSettleTasks(prev, c) ==
    IF c.phase = "ok"
    THEN IF c.op = "create" THEN CreateInsert(prev, c.data)
                            ELSE ReplaceMap(prev, c.id, c.data)
    ELSE prev

\* Faulty variant of ToggleSettleTasks: a record that is no longer held is
\* put back at the front (the response on success, the snapshot on failure).
ToggleSettleTasks_upsert(prev, c) ==
    IF \E k \in 1..Len(prev) : prev[k].id = c.task.id
    THEN IF c.phase = "ok" THEN ToggleConfirm(prev, c.task, c.data)
                           ELSE ToggleRevert(prev, c.task)
    ELSE IF c.phase = "ok" THEN <<c.data>> \o prev ELSE <<c.task>> \o prev

\* handleToggleStatus: try { overwrite } catch { revert }
ToggleSettleTasks(prev, c) ==
    IF c.phase = "ok" THEN ToggleConfirm(prev, c.task, c.data)
                      ELSE ToggleRevert(prev, c.task)

\* handleDelete: try { } catch { restore }
DeleteSettleTasks(prev, c) ==
    IF c.phase = "ok" THEN prev ELSE DeleteRestore(prev, c.task)

\* the collection after call c has settled
SettleTasks(prev, c) ==
    CASE c.op = "list"                 -> RefreshSettleTasks(prev, c)
      [] c.op \in {"create", "update"} -> SubmitSettleTasks(prev, c)
      [] c.op = "patch"                -> ToggleSettleTasks(prev, c)
      [] c.op = "delete"               -> DeleteSettleTasks(prev, c)

Writes(op) == op \in {"patch", "update"}

\* calls without its i-th element, which settles now; the calls that stay
\* pending on the same id are marked as overlapped (history)
SettleCalls(i) ==
    LET c == calls[i]
        Mark(k) ==
            IF k # i /\ Writes(c.op) /\ Writes(calls[k].op) /\ calls[k].id = c.id
            THEN [calls[k] EXCEPT !.ov = IF k < i THEN "first" ELSE "second"]
            ELSE calls[k]
    IN  RemoveAt([k \in 1..Len(calls) |-> Mark(k)], i)

-----------------------------------------------------------------------------
(* App: user intents (the handlers up to their await)                      *)

\* The list items, and with them the toggle / edit / delete buttons, are
\* rendered only when not loading; each button is disabled while its task's
\* id is in deletingIds.
Clickable(k) ==
    /\ ~loading
    /\ k \in 1..Len(tasks)
    /\ tasks[k].id \notin deletingIds

\* refresh, up to `await listTasks()`.  The Refresh button is disabled while
\* loading; the Retry button is rendered whenever loadError is set.
Refresh ==
    /\ ~loading \/ loadError # Null
    /\ issued < MaxIssued
    /\ loading' = TRUE
    /\ loadError' = Null
    /\ calls' = Append(calls, listTasks)
    /\ issued' = issued + 1
    /\ last' = Evt("refresh", NoCall)
    /\ UNCHANGED <<tasks, modalOpen, modalMode, activeTask, saving, modalError,
                   deletingIds, server, nextId>>

\* refresh, after the await
RefreshSettle(i) ==
    /\ i \in 1..Len(calls)
    /\ calls[i].op = "list"
    /\ Settled(calls[i])
    /\ LET c == calls[i] IN
       /\ tasks' = RefreshSettleTasks(tasks, c)
       /\ loadError' = IF c.phase = "ok" THEN loadError ELSE normalizeError(c.err)
       /\ last' = Evt(IF c.phase = "ok" THEN "refreshOk" ELSE "refreshErr", c)
    /\ loading' = FALSE
    /\ calls' = SettleCalls(i)
    /\ UNCHANGED <<modalOpen, modalMode, activeTask, saving, modalError,
                   deletingIds, server, nextId, issued>>

openAdd ==
    /\ modalError' = Null
    /\ modalMode' = "add"
    /\ activeTask' = NoTask
    /\ modalOpen' = TRUE
    /\ last' = Evt("openAdd", NoCall)
    /\ UNCHANGED <<tasks, loading, loadError, saving, deletingIds, calls, server,
                   nextId, issued>>

openEdit(k) ==
    /\ Clickable(k)
    /\ modalError' = Null
    /\ modalMode' = "edit"
    /\ activeTask' = tasks[k]
    /\ modalOpen' = TRUE
    /\ last' = Evt("openEdit", NoCall)
    /\ UNCHANGED <<tasks, loading, loadError, saving, deletingIds, calls, server,
                   nextId, issued>>

\* Faulty variant of closeModal: the `if (saving) return` guard is missing.
closeModal_always ==
    /\ modalOpen
    /\ modalOpen' = FALSE
    /\ last' = Evt("close", NoCall)
    /\ UNCHANGED <<tasks, loading, loadError, modalMode, activeTask, saving,
                   modalError, deletingIds, calls, server, nextId, issued>>

\* closeModal, reached through TaskModal's onClose (Escape, overlay, buttons),
\* which exists only while the modal is open
closeModal ==
    /\ modalOpen
    /\ modalOpen' = IF saving THEN modalOpen ELSE FALSE
    /\ last' = Evt("close", NoCall)
    /\ UNCHANGED <<tasks, loading, loadError, modalMode, activeTask, saving,
                   modalError, deletingIds, calls, server, nextId, issued>>

\* TaskModal.handleSubmit: the payload handed to onSubmit
FormPayload(inp) ==
    [title |-> Trim(inp.title), description |-> Trim(inp.description),
     status |-> inp.status]

\* Faulty variant of submitDisabled: the title is not trimmed.
submitDisabled_noTrim(inp) == saving \/ Len(inp.title) = 0

\* TaskModal: submitDisabled
submitDisabled(inp) == saving \/ Len(Trim(inp.title)) = 0

\* Faulty variant of SubmitBody: the payload is sent as it was handed in.
SubmitBody_asGiven(payload) == payload

\* handleSubmitModal: the body sent with createTask / updateTask
SubmitBody(payload) ==
    [title |-> payload.title,
     description |-> TextOr(payload, "description"),
     status |-> StatusOr(payload, "pending")]

\* the submit event of the form with the fields as typed (step label)
Submitted(inp) == Evt("submit", [NoCall EXCEPT !.body = inp])

\* TaskModal.handleSubmit and handleSubmitModal up to its await.  While
\* submitDisabled, handleSubmit returns before onSubmit.  In edit mode a
\* falsy activeTask id throws before any call is made; catch and finally
\* then run at once.
handleSubmit(inp) ==
    /\ modalOpen
    /\ submitDisabled(inp) \/ issued < MaxIssued
    /\ IF submitDisabled(inp)
       THEN UNCHANGED <<calls, saving, modalError, issued>>
       ELSE LET body == SubmitBody(FormPayload(inp)) IN
            IF modalMode = "add"
            THEN /\ calls' = Append(calls, createTask(body))
                 /\ saving' = TRUE
                 /\ modalError' = Null
                 /\ issued' = issued + 1
            ELSE IF activeTask.id = 0
            THEN /\ modalError' = normalizeError([type |-> "Error",
                                                  message |-> "Missing task id"])
                 /\ saving' = FALSE
                 /\ UNCHANGED <<calls, issued>>
            ELSE /\ calls' = Append(calls, updateTask(activeTask.id, body))
                 /\ saving' = TRUE
                 /\ modalError' = Null
                 /\ issued' = issued + 1
    /\ last' = Submitted(inp)
    /\ UNCHANGED <<tasks, loading, loadError, modalOpen, modalMode, activeTask,
                   deletingIds, server, nextId>>

\* Faulty variant of SubmitSettle: setSaving(false) sits at the end of the
\* try block instead of in finally.
SubmitSettle_noFinally(i) ==
    /\ i \in 1..Len(calls)
    /\ calls[i].op \in {"create", "update"}
    /\ Settled(calls[i])
    /\ LET c == calls[i] IN
       /\ tasks' = SubmitSettleTasks(tasks, c)
       /\ modalOpen' = IF c.phase = "ok" THEN FALSE ELSE modalOpen
       /\ modalError' = IF c.phase = "ok" THEN modalError ELSE normalizeError(c.err)
       /\ saving' = IF c.phase = "ok" THEN FALSE ELSE saving
       /\ last' = Evt(IF c.phase = "ok" THEN c.op \o "Ok" ELSE c.op \o "Err", c)
    /\ calls' = SettleCalls(i)
    /\ UNCHANGED <<loading, loadError, modalMode, activeTask, deletingIds, server,
                   nextId, issued>>

\* handleSubmitModal, after the await
SubmitSettle(i) ==
    /\ i \in 1..Len(calls)
    /\ calls[i].op \in {"create", "update"}
    /\ Settled(calls[i])
    /\ LET c == calls[i] IN
       /\ tasks' = SubmitSettleTasks(tasks, c)
       /\ modalOpen' = IF c.phase = "ok" THEN FALSE ELSE modalOpen
       /\ modalError' = IF c.phase = "ok" THEN modalError ELSE normalizeError(c.err)
       /\ last' = Evt(IF c.phase = "ok" THEN c.op \o "Ok" ELSE c.op \o "Err", c)
    /\ saving' = FALSE
    /\ calls' = SettleCalls(i)
    /\ UNCHANGED <<loading, loadError, modalMode, activeTask, deletingIds, server,
                   nextId, issued>>

\* handleToggleStatus(task), up to `await patchTask(...)`
handleToggleStatus(k) ==
    /\ Clickable(k)
    /\ issued < MaxIssued
    /\ LET task == tasks[k] IN
       /\ tasks' = ToggleOptimistic(tasks, task)
       /\ calls' = Append(calls,
                     patchTask(task.id, [status |-> NextStatus(task)], task))
       /\ last' = Evt("toggle", patchTask(task.id, [status |-> NextStatus(task)], task))
    /\ issued' = issued + 1
    /\ UNCHANGED <<loading, loadError, modalOpen, modalMode, activeTask, saving,
                   modalError, deletingIds, server, nextId>>

\* handleToggleStatus, after the await
ToggleSettle(i) ==
    /\ i \in 1..Len(calls)
    /\ calls[i].op = "patch"
    /\ Settled(calls[i])
    /\ LET c == calls[i] IN
       /\ tasks' = ToggleSettleTasks(tasks, c)
       /\ loadError' = IF c.phase = "ok" THEN loadError ELSE normalizeError(c.err)
       /\ last' = Evt(IF c.phase = "ok" THEN "toggleOk" ELSE "toggleErr", c)
    /\ calls' = SettleCalls(i)
    /\ UNCHANGED <<loading, modalOpen, modalMode, activeTask, saving, modalError,
                   deletingIds, server, nextId, issued>>

\* handleDelete(task), up to `await deleteTask(id)`; a falsy id or a
\* declined window.confirm returns without any change
handleDelete(k) ==
    /\ Clickable(k)
    /\ issued < MaxIssued
    /\ tasks[k].id # 0
    /\ \E ok \in BOOLEAN : ok
    /\ LET task == tasks[k] IN
       /\ deletingIds' = DeletingAdd(deletingIds, task.id)
       /\ tasks' = DeleteOptimistic(tasks, task.id)
       /\ calls' = Append(calls, deleteTask(task.id, task))
       /\ last' = Evt("delete", deleteTask(task.id, task))
    /\ issued' = issued + 1
    /\ UNCHANGED <<loading, loadError, modalOpen, modalMode, activeTask, saving,
                   modalError, server, nextId>>

\* handleDelete, after the await
DeleteSettle(i) ==
    /\ i \in 1..Len(calls)
    /\ calls[i].op = "delete"
    /\ Settled(calls[i])
    /\ LET c == calls[i] IN
       /\ tasks' = DeleteSettleTasks(tasks, c)
       /\ loadError' = IF c.phase = "ok" THEN loadError ELSE normalizeError(c.err)
       /\ deletingIds' = DeletingClear(deletingIds, c.id)
       /\ last' = Evt(IF c.phase = "ok" THEN "deleteOk" ELSE "deleteErr", c)
    /\ calls' = SettleCalls(i)
    /\ UNCHANGED <<loading, modalOpen, modalMode, activeTask, saving, modalError,
                   server, nextId, issued>>

-----------------------------------------------------------------------------
(* The machine *)

\* The App after mounting: the state of the useState initialisers, with the
\* mount effect's refresh() waiting in `await listTasks()`.
Init ==
    /\ tasks = <<>>
    /\ loading = TRUE
    /\ loadError = Null
    /\ modalOpen = FALSE
    /\ modalMode = "add"
    /\ activeTask = NoTask
    /\ saving = FALSE
    /\ modalError = Null
    /\ deletingIds = {}
    /\ calls = <<listTasks>>
    /\ server = InitialServer
    /\ nextId = 3
    /\ issued = 0
    /\ last = Evt("mount", NoCall)

Next ==
    \/ Refresh
    \/ openAdd
    \/ closeModal
    \/ \E inp \in FormInputs : handleSubmit(inp)
    \/ \E k \in 1..Len(tasks) : openEdit(k)
    \/ \E k \in 1..Len(tasks) : handleToggleStatus(k)
    \/ \E k \in 1..Len(tasks) : handleDelete(k)
    \/ \E i \in 1..Len(calls) : ServerOk(i)
    \/ \E i \in 1..Len(calls) : ServerListMalformed(i)
    \/ \E i \in 1..Len(calls), e \in Thrown : ServerFail(i, e)
    \/ \E i \in 1..Len(calls) : RefreshSettle(i)
    \/ \E i \in 1..Len(calls) : SubmitSettle(i)
    \/ \E i \in 1..Len(calls) : ToggleSettle(i)
    \/ \E i \in 1..Len(calls) : DeleteSettle(i)

Spec == Init /\ [][Next]_vars

\* The service answers call i, one way or another.
Answer(i) == ServerOk(i) \/ ServerListMalformed(i) \/ \E e \in Thrown : ServerFail(i, e)

\* The handler waiting on call i resumes.
Settle(i) == RefreshSettle(i) \/ SubmitSettle(i) \/ ToggleSettle(i) \/ DeleteSettle(i)

\* Every remote call is eventually answered and every answered promise
\* eventually resumes its handler (the event loop runs each continuation).
FairSpec ==
    /\ Spec
    /\ \A i \in 1..(MaxIssued + 1) : WF_vars(Answer(i)) /\ WF_vars(Settle(i))

-----------------------------------------------------------------------------
(* The derived view (useMemo filteredTasks), the submission body and the   *)
(* gateway client as functions of their inputs                             *)

\* bound of the collections handed to the functions
MaxTasks == 3

\* the records a collection is drawn from; a list coming from the service
\* may lack id, title or description
TaskPool ==
    { [id |-> 1, title |-> <<"A", "b">>, description |-> <<>>, status |-> "pending"],
      [id |-> 2, title |-> <<"b">>, description |-> <<"a">>, status |-> "completed"],
      [id |-> 3, title |-> <<"b">>, status |-> "pending"],
      [title |-> <<"a", "b">>, description |-> <<>>, status |-> "pending"],
      [id |-> 0, description |-> <<"A", "B">>, status |-> "completed"] }

\* the values of the filter buttons
Filters == {"all", "pending", "completed"}

\* the texts typed in the search box
Queries == { <<>>, <<Space>>, <<"b">>, <<Space, "A", "B", Space>> }

\* String.prototype.toLowerCase on one character (the letters in use)
ToLowerChar(c) ==
    CASE c = "A" -> "a"
      [] c = "B" -> "b"
      [] OTHER   -> c

\* String.prototype.toLowerCase
toLowerCase(s) == [k \in DOMAIN s |-> ToLowerChar(s[k])]

\* String.prototype.includes
includes(s, q) ==
    \E i \in 0..(Len(s) - Len(q)) : SubSeq(s, i + 1, i + Len(q)) = q

\* t.id || 0
IdOr0(t) == IF "id" \in DOMAIN t THEN t.id ELSE 0

\* filteredTasks, first filter callback
StatusFilter(t, filter) ==
    IF filter = "pending" THEN t.status = "pending"
    ELSE IF filter = "completed" THEN t.status = "completed"
    ELSE TRUE

\* Faulty variant of QueryFilter: the description is not searched.
QueryFilter_titleOnly(t, q) ==
    IF q = <<>> THEN TRUE
    ELSE includes(toLowerCase(TextOr(t, "title")), q)

\* filteredTasks, second filter callback; q is query.trim().toLowerCase()
QueryFilter(t, q) ==
    IF q = <<>> THEN TRUE
    ELSE \/ includes(toLowerCase(TextOr(t, "title")), q)
         \/ includes(toLowerCase(TextOr(t, "description")), q)

\* Faulty variant of compare: oldest id first.
compare_ascending(a, b) ==
    IF a.status # b.status
    THEN IF a.status = "pending" THEN -1 ELSE 1
    ELSE IdOr0(a) - IdOr0(b)

\* filteredTasks, the sort callback
compare(a, b) ==
    IF a.status # b.status
    THEN IF a.status = "pending" THEN -1 ELSE 1
    ELSE IdOr0(b) - IdOr0(a)

\* Array.prototype.sort is stable: x goes behind every element that does
\* not compare greater than it
RECURSIVE SortInsert(_, _)
SortInsert(s, x) ==
    IF s = <<>> THEN <<x>>
    ELSE IF compare(Head(s), x) > 0 THEN <<x>> \o s
    ELSE <<Head(s)>> \o SortInsert(Tail(s), x)

\* Array.prototype.sort with the callback above
RECURSIVE sort(_)
sort(s) ==
    IF s = <<>> THEN <<>>
    ELSE SortInsert(sort(SubSeq(s, 1, Len(s) - 1)), s[Len(s)])

\* filteredTasks for the collection ts
filteredTasks(ts, filter, query) ==
    LET q == toLowerCase(Trim(query))
        ByStatus(t) == StatusFilter(t, filter)
        ByQuery(t)  == QueryFilter(t, q)
    IN  sort(SelectSeq(SelectSeq(ts, ByStatus), ByQuery))

\* the collections of at most MaxTasks records
Collections ==
    UNION { [1..n -> TaskPool] : n \in 0..MaxTasks }

\* rendering with the given filter and query: the memo is computed from the
\* collection, which filter() copies before sort() reorders the copy
Project(filter, query) ==
    /\ last' = [op |-> "project", call |-> NoCall,
                in |-> [tasks |-> tasks, filter |-> filter, query |-> query],
                out |-> filteredTasks(tasks, filter, query)]
    /\ UNCHANGED <<tasks, loading, loadError, modalOpen, modalMode, activeTask,
                   saving, modalError, deletingIds, calls, server, nextId, issued>>

\* the title of the payload {title: 'Pay rent'}
PayRent == <<"P", "a", "y", Space, "r", "e", "n", "t">>

\* payloads handed to handleSubmitModal, with and without the optional fields
Payloads ==
    { [title |-> PayRent],
      [title |-> PayRent, description |-> <<>>],
      [title |-> PayRent, status |-> "completed"],
      [title |-> PayRent, status |-> ""],
      [title |-> <<"b">>, description |-> <<"d">>],
      [title |-> <<"b">>, description |-> <<"d">>, status |-> "completed"] }

\* handleSubmitModal(payload) up to the call it issues, in add mode (id = 0)
\* or editing the task with the given id
SendPayload(id, payload) ==
    /\ last' = [op |-> "send",
                call |-> IF id = 0 THEN createTask(SubmitBody(payload))
                                   ELSE updateTask(id, SubmitBody(payload)),
                in |-> payload,
                out |-> SubmitBody(payload)]
    /\ UNCHANGED <<tasks, loading, loadError, modalOpen, modalMode, activeTask,
                   saving, modalError, deletingIds, calls, server, nextId, issued>>

\* JSON values as the gateway client meets them: null, a string, an array
\* of strings, an object with or without the fields detail and message;
\* undefined is what reading a missing field gives
JNull == [t |-> "null"]

JUndefined == [t |-> "undefined"]

JString(s) == [t |-> "string", v |-> s]

JArray(items) == [t |-> "array", items |-> items]

\* JavaScript truthiness
Truthy(j) == ~(j.t \in {"null", "undefined"} \/ (j.t = "string" /\ j.v = ""))

\* a || b and a && b
JsOr(a, b) == IF Truthy(a) THEN a ELSE b

JsAnd(a, b) == IF Truthy(a) THEN b ELSE a

\* j.f: only an object has fields
JsGet(j, f) == IF j.t = "object" /\ f \in DOMAIN j THEN j[f] ELSE JUndefined

\* JSON.stringify on an array of strings
RECURSIVE StringifyItems(_)
StringifyItems(items) ==
    IF items = <<>> THEN ""
    ELSE "\"" \o Head(items) \o "\""
         \o (IF Len(items) > 1 THEN "," ELSE "") \o StringifyItems(Tail(items))

\* JSON.stringify on a value that is not a string
stringify(j) ==
    IF j.t = "array" THEN "[" \o StringifyItems(j.items) \o "]" ELSE "null"

\* the bodies a response may carry: parses is FALSE when response.json()
\* rejects
Bodies ==
    { [parses |-> FALSE, json |-> JNull] } \cup
    { [parses |-> TRUE, json |-> j] : j \in
        { JNull,
          JString("x"),
          [t |-> "object"],
          [t |-> "object", detail |-> JString("D")],
          [t |-> "object", message |-> JString("M")],
          [t |-> "object", detail |-> JString("D"), message |-> JString("M")],
          [t |-> "object", detail |-> JString(""), message |-> JString("M")],
          [t |-> "object", detail |-> JArray(<<"e", "f">>)] } }

\* the responses fetch may resolve with
Responses ==
    { [status |-> s, statusText |-> x, body |-> b] :
        s \in {200, 204, 404, 500}, x \in {"", "Not Found"}, b \in Bodies }

\* Response.ok
ResponseOk(response) == response.status \in 200..299

\* toApiError's fallback message
FallbackMessage(response) ==
    "Request failed with " \o ToString(response.status) \o " "
        \o response.statusText

\* the error response.json() rejects with
JsonSyntaxError == [type |-> "SyntaxError", message |-> "Unexpected end of JSON input"]

\* Faulty variant of toApiError: response.json() is awaited outside try, so
\* its rejection becomes the error.
toApiError_noCatch(response) ==
    IF ~response.body.parses THEN JsonSyntaxError
    ELSE LET detail  == response.body.json
             message == JsOr(JsAnd(detail, JsOr(JsGet(detail, "detail"),
                                                JsGet(detail, "message"))),
                             JString(FallbackMessage(response)))
         IN  [type |-> "Error",
              message |-> IF message.t = "string" THEN message.v
                                                  ELSE stringify(message),
              status |-> response.status,
              detail |-> detail]

\* toApiError
toApiError(response) ==
    LET detail  == IF response.body.parses THEN response.body.json ELSE JNull
        message == JsOr(JsAnd(detail, JsOr(JsGet(detail, "detail"),
                                           JsGet(detail, "message"))),
                        JString(FallbackMessage(response)))
    IN  [type |-> "Error",
         message |-> IF message.t = "string" THEN message.v
                                             ELSE stringify(message),
         status |-> response.status,
         detail |-> detail]

\* request, from the response on: what the promise settles with
request(response) ==
    IF ~ResponseOk(response)
    THEN [kind |-> "throw", err |-> toApiError(response)]
    ELSE IF response.status = 204
    THEN [kind |-> "return", value |-> JNull]
    ELSE IF response.body.parses
    THEN [kind |-> "return", value |-> response.body.json]
    ELSE [kind |-> "throw", err |-> JsonSyntaxError]

\* a call of request whose fetch resolves with the given response
Request(response) ==
    /\ last' = [op |-> "request", call |-> NoCall,
                in |-> response, out |-> request(response)]
    /\ UNCHANGED <<tasks, loading, loadError, modalOpen, modalMode, activeTask,
                   saving, modalError, deletingIds, calls, server, nextId, issued>>

\* the App holding any collection, before anything is rendered
FunctionsInit ==
    /\ tasks \in Collections
    /\ loading = FALSE
    /\ loadError = Null
    /\ modalOpen = FALSE
    /\ modalMode = "add"
    /\ activeTask = NoTask
    /\ saving = FALSE
    /\ modalError = Null
    /\ deletingIds = {}
    /\ calls = <<>>
    /\ server = {}
    /\ nextId = 1
    /\ issued = 0
    /\ last = Evt("none", NoCall)

FunctionsNext ==
    \/ \E f \in Filters, q \in Queries : Project(f, q)
    \/ \E id \in 0..1, p \in Payloads : SendPayload(id, p)
    \/ \E r \in Responses : Request(r)

FunctionsSpec == FunctionsInit /\ [][FunctionsNext]_vars

-----------------------------------------------------------------------------

(* Properties *)

Present(id) == \E k \in 1..Len(tasks) : tasks[k].id = id

\* every record held for id equals rec
AllAt(id, rec) == \A k \in 1..Len(tasks) : tasks[k].id = id => tasks[k] = rec

\* C1: after a delete whose remove(id) call failed has settled, the collection
\* holds exactly one record with that id, equal to the record the delete removed.
C1_FailedDeleteRestoresOnce ==
    last.op = "deleteErr" =>
        RecordsOf(tasks, last.call.id) = <<last.call.task>>

\* C2: the collection holds at most one task per id.
C2_AtMostOnePerId ==
    \A j, k \in 1..Len(tasks) : j # k => tasks[j].id # tasks[k].id

\* C3: after a failed toggle has settled, every record held for the id equals
\* the full record the toggle captured, and that captured record is a record
\* the collection held immediately before the optimistic flip.
C3_FailedToggleRestoresSnapshot ==
    /\ [](last.op = "toggleErr" => AllAt(last.call.id, last.call.task))
    /\ [][(last'.op = "toggle" /\ Len(calls') = Len(calls) + 1) =>
            \E k \in 1..Len(tasks) : tasks[k] = last'.call.task]_vars

\* a failed toggle has settled after a replace changed the record in between:
\* the restored title is the snapshot's, not the one the service holds
C3_Witness ==
    /\ last.op = "toggleErr"
    /\ Present(last.call.id)
    /\ ServerHas(last.call.id)
    /\ ServerGet(last.call.id).title # last.call.task.title

\* C4: once a delete has settled, by success or by failure, its id is not in
\* deletingIds; and every id put in deletingIds is eventually removed from it.
C4_InFlightCleared ==
    /\ [](last.op \in {"deleteOk", "deleteErr"} => last.call.id \notin deletingIds)
    /\ \A id \in 1..(MaxIssued + 2) :
          (id \in deletingIds) ~> (id \notin deletingIds)

\* a delete has failed and settled, and nothing is marked in flight
C4_Witness ==
    /\ last.op = "deleteErr"
    /\ deletingIds = {}
    /\ Present(last.call.id)

\* C5: the settlement of a failed create or replace leaves the collection as it was.
C5_FailedSubmitLeavesTasks ==
    [][last'.op \in {"createErr", "updateErr"} => tasks' = tasks]_vars

\* a replace has failed with a non-empty collection and an id it holds
C5_Witness ==
    /\ last.op = "updateErr"
    /\ Present(last.call.id)
    /\ modalOpen

\* C6: a failed toggle or delete leaves a non-empty load error; a failed create
\* or replace leaves a non-empty submission error and does not touch the load error.
C6_FailuresSurface ==
    /\ [](last.op \in {"toggleErr", "deleteErr"} => loadError \notin {Null, ""})
    /\ [](last.op \in {"createErr", "updateErr"} => modalError \notin {Null, ""})
    /\ [][last'.op \in {"createErr", "updateErr"} => loadError' = loadError]_vars

\* a toggle failed with an Error whose message is empty
C6_Witness ==
    /\ last.op = "toggleErr"
    /\ last.call.err.message = ""
    /\ loadError = "Request failed"

\* C7: when the settling toggle or replace overlapped another toggle or replace
\* on the same id, the record held for the id afterwards is the one it wrote:
\* the service's response on success, the toggle's snapshot on failure.
C7_LastSettlementWins ==
    (last.op \in {"toggleOk", "toggleErr", "updateOk"} /\ last.call.ov # "no") =>
        AllAt(last.call.id,
              IF last.op = "toggleErr" THEN last.call.task ELSE last.call.data)

\* the operation issued first settled last, successfully, and overwrote the record
C7_Witness ==
    /\ last.op \in {"toggleOk", "updateOk"}
    /\ last.call.ov = "first"
    /\ Present(last.call.id)

Mutation(c) == c.op \in {"patch", "update", "delete"}

\* C8: two pending mutations on different ids commute on the records of each
\* id, and the settlement of a mutation changes no record of another id.
C8_DifferentIdsIndependent ==
    /\ [](\A i, j \in 1..Len(calls) :
            (/\ Mutation(calls[i]) /\ Mutation(calls[j])
             /\ Settled(calls[i]) /\ Settled(calls[j])
             /\ calls[i].id # calls[j].id) =>
            \A id \in {calls[i].id, calls[j].id} :
               RecordsOf(SettleTasks(SettleTasks(tasks, calls[i]), calls[j]), id)
                 = RecordsOf(SettleTasks(SettleTasks(tasks, calls[j]), calls[i]), id))
    /\ [][last'.op \in {"toggleOk", "toggleErr", "updateOk", "updateErr",
                        "deleteOk", "deleteErr"} =>
            \A id \in (IdsOf(tasks) \cup IdsOf(tasks')) \ {last'.call.id} :
               RecordsOf(tasks', id) = RecordsOf(tasks, id)]_vars

\* a mutation has settled while an answered mutation on another id, whose
\* record is held, is still pending
C8_Witness ==
    /\ last.op \in {"toggleOk", "toggleErr", "updateOk", "deleteErr"}
    /\ \E i \in 1..Len(calls) :
          /\ Mutation(calls[i])
          /\ Settled(calls[i])
          /\ calls[i].id # last.call.id
          /\ Present(calls[i].id)
    /\ Present(last.call.id)

\* C9: after a successful refresh the collection is the list the service returned.
C9_RefreshReplacesAll ==
    (last.op = "refreshOk" /\ last.call.list.isArray) => tasks = last.call.list.tasks

\* a refresh landed while a toggle was pending and the record no longer shows
\* the toggle's optimistic status
C9_Witness ==
    /\ last.op = "refreshOk"
    /\ last.call.list.isArray
    /\ \E i \in 1..Len(calls), k \in 1..Len(tasks) :
          /\ calls[i].op = "patch"
          /\ tasks[k].id = calls[i].id
          /\ tasks[k].status # calls[i].body.status

\* C10: after a successful toggle or replace the record held for the id is the
\* representation the service returned, and no record of another id changed.
C10_SuccessWritesServerRecord ==
    /\ [](last.op \in {"toggleOk", "updateOk"} => AllAt(last.call.id, last.call.data))
    /\ [][last'.op \in {"toggleOk", "updateOk"} =>
            /\ Len(tasks') = Len(tasks)
            /\ \A k \in 1..Len(tasks) :
                  tasks[k].id # last'.call.id => tasks'[k] = tasks[k]]_vars

\* a replace succeeded and the record now carries the title the service
\* normalised, not the title that was sent
C10_Witness ==
    /\ last.op = "updateOk"
    /\ last.call.data.title # last.call.body.title
    /\ \E k \in 1..Len(tasks) : tasks[k] = last.call.data
    /\ Len(tasks) > 1

\* C11: a toggle is optimistic.  The step that handles the toggle intent (it
\* issues the patch call, which has not settled) leaves the collection's
\* length and order alone, gives every record of the clicked id the flipped
\* status (pending <-> completed) of the clicked record with all its other
\* fields as before, leaves every record of another id as it was, and the
\* patch call it issues carries exactly that new status and nothing else.
C11_ToggleIsOptimistic ==
    [][(last'.op = "toggle" /\ Len(calls') = Len(calls) + 1) =>
         LET c   == calls'[Len(calls')]
             old == c.task
             new == IF old.status = "pending" THEN "completed" ELSE "pending"
         IN  /\ c = last'.call /\ c.op = "patch" /\ c.phase = "sent"
             /\ c.id = old.id
             /\ c.body = [status |-> new]
             /\ \E k \in 1..Len(tasks) : tasks[k] = old
             /\ Len(tasks') = Len(tasks)
             /\ \A k \in 1..Len(tasks) :
                  tasks'[k] = IF tasks[k].id = old.id
                              THEN [id |-> tasks[k].id, title |-> tasks[k].title,
                                    description |-> tasks[k].description,
                                    status |-> new]
                              ELSE tasks[k]]_vars

\* C11 witness: a completed task has just been toggled back to pending while
\* a record of another id sits in the collection and the patch is pending.
C11_Witness ==
    /\ last.op = "toggle"
    /\ last.call.task.status = "completed"
    /\ \E i \in 1..Len(calls) : calls[i] = last.call /\ calls[i].phase = "sent"
    /\ \E k \in 1..Len(tasks) :
         tasks[k] = [last.call.task EXCEPT !.status = "pending"]
    /\ \E k \in 1..Len(tasks) : tasks[k].id # last.call.id

\* C12: a delete is optimistic.  The step that starts a delete (it issues
\* remove(id), which has not settled) puts the id in the in-flight set and
\* leaves the collection as it was minus every record of that id; the id of
\* every delete call not yet resumed is in the in-flight set; and the
\* settlement of a successful delete leaves the collection exactly as it
\* finds it (nothing added, the record not brought back).
C12_DeleteIsOptimistic ==
    /\ [](\A i \in 1..Len(calls) :
            calls[i].op = "delete" => calls[i].id \in deletingIds)
    /\ [][(last'.op = "delete" /\ Len(calls') = Len(calls) + 1) =>
            LET c == calls'[Len(calls')]
                Other(t) == t.id # c.id
            IN  /\ c = last'.call /\ c.op = "delete" /\ c.phase = "sent"
                /\ \E k \in 1..Len(tasks) : tasks[k] = c.task /\ tasks[k].id = c.id
                /\ c.id \in deletingIds'
                /\ \A k \in 1..Len(tasks') : tasks'[k].id # c.id
                /\ tasks' = SelectSeq(tasks, Other)]_vars
    /\ [][(last'.op = "deleteOk" /\ Len(calls') < Len(calls)) =>
            tasks' = tasks]_vars

\* C12 witness: a delete has just succeeded; its id is neither in the
\* collection nor in flight any more, and the other record is still held.
C12_Witness ==
    /\ last.op = "deleteOk"
    /\ last.call.phase = "ok"
    /\ ~Present(last.call.id)
    /\ last.call.id \notin deletingIds
    /\ Len(tasks) >= 1

\* C13: create is not optimistic.  The step that submits the form changes
\* nothing in the collection, no record without a service-assigned id (a
\* placeholder) is ever held, and the settlement of a successful create
\* yields the collection made of the returned task followed by the records
\* held before, in their order.
C13_CreateNotOptimistic ==
    /\ [](\A k \in 1..Len(tasks) : tasks[k].id # 0)
    /\ [][last'.op = "submit" => tasks' = tasks]_vars
    /\ [][(last'.op = "createOk" /\ Len(calls') < Len(calls)) =>
            /\ last'.call.op = "create" /\ last'.call.phase = "ok"
            /\ Len(tasks') = Len(tasks) + 1
            /\ tasks'[1] = last'.call.data
            /\ \A k \in 1..Len(tasks) : tasks'[k + 1] = tasks[k]]_vars

\* C13 witness: a create has just succeeded with two records already held;
\* the first record is the returned task, whose title the service changed,
\* and the two older records follow.
C13_Witness ==
    /\ last.op = "createOk"
    /\ Len(tasks) = 3
    /\ tasks[1] = last.call.data
    /\ tasks[1].title # last.call.body.title
    /\ tasks[2].id # tasks[1].id /\ tasks[3].id # tasks[1].id

\* a create or replace call has been issued and its handler has not resumed
SubmissionPending ==
    \E i \in 1..Len(calls) : calls[i].op \in {"create", "update"}

\* C14: closing is disallowed while busy.  A close intent handled while a
\* submission is in flight (saving) leaves the session open, and a step
\* that takes the session from open to closed is either a close intent with
\* no submission pending or the successful settlement of the pending
\* submission.
C14_NoCloseWhileBusy ==
    /\ [][(saving /\ modalOpen /\ last'.op = "close") => modalOpen']_vars
    /\ [][(modalOpen /\ ~modalOpen') =>
            IF saving \/ SubmissionPending
            THEN /\ last'.op \in {"createOk", "updateOk"}
                 /\ Len(calls') < Len(calls)
                 /\ ~saving'
            ELSE last'.op = "close"]_vars

\* C14 witness: a close intent has just been handled while the submission
\* was in flight, and the session is still open and busy.
C14_Witness ==
    /\ last.op = "close"
    /\ saving
    /\ SubmissionPending
    /\ modalOpen

\* C15: the lifecycle of a submission.  The step that submits sets saving
\* and clears modalError; the settlement of a successful create/replace
\* closes the session; the settlement of a failed one leaves the session
\* open with modalError the failure's message ("Request failed" when it has
\* none); either settlement clears saving; and saving is never true unless
\* a create/replace call is still waiting for its handler to resume.
C15_SubmissionLifecycle ==
    /\ [](saving => SubmissionPending /\ modalOpen)
    /\ [][(last'.op = "submit" /\ Len(calls') = Len(calls) + 1) =>
            /\ calls'[Len(calls')].op \in {"create", "update"}
            /\ saving'
            /\ modalError' = Null]_vars
    /\ [][(last'.op \in {"createOk", "updateOk"} /\ Len(calls') < Len(calls)) =>
            /\ last'.call.phase = "ok"
            /\ saving /\ ~saving'
            /\ modalOpen /\ ~modalOpen']_vars
    /\ [][(last'.op \in {"createErr", "updateErr"} /\ Len(calls') < Len(calls)) =>
            /\ last'.call.phase = "err"
            /\ saving /\ ~saving'
            /\ modalOpen /\ modalOpen'
            /\ modalError' = IF last'.call.err.message = ""
                             THEN "Request failed"
                             ELSE last'.call.err.message]_vars

\* C15 witness: a replace has just failed with a message; the session is
\* still open, shows that message, and is no longer busy.
C15_Witness ==
    /\ last.op = "updateErr"
    /\ last.call.err.message = "Request failed with 500 "
    /\ modalOpen
    /\ modalError = "Request failed with 500 "
    /\ ~saving

\* a text made of white space only
IsBlank(s) == \A k \in 1..Len(s) : s[k] = Space

\* C16: local rejection.  A submit event whose title is blank once trimmed,
\* or that arrives while saving, issues no call and leaves the collection,
\* saving and modalError as they are; no create or replace call ever carries
\* a blank title.
C16_BlankOrBusySubmitRejected ==
    /\ [](\A i \in 1..Len(calls) :
            calls[i].op \in {"create", "update"} => ~IsBlank(calls[i].body.title))
    /\ [][(/\ last'.op = "submit"
           /\ last' # last \/ Len(calls') > Len(calls)
           /\ IsBlank(last'.call.body.title) \/ saving) =>
            UNCHANGED <<tasks, saving, modalError, calls, modalOpen>>]_vars

\* C16 witness: a title of one space has just been submitted to an idle
\* form; no submission is pending and the form is not busy.
C16_Witness ==
    /\ last.op = "submit"
    /\ last.call.body.title = <<Space>>
    /\ modalOpen
    /\ ~saving
    /\ ~SubmissionPending

\* a record with an id that is neither missing nor falsy
HasId(t) == "id" \in DOMAIN t /\ t.id # 0

\* C17: the projected list is sorted.  No completed task stands before a
\* pending one, and of two neighbours with the same status the first has
\* the id at least as high; a neighbour without an id (missing or falsy)
\* counts as the lowest, so only such records follow it in its group.
C17_ProjectionSorted ==
    last.op = "project" =>
        LET l == last.out IN
        /\ \A i \in 1..Len(l), j \in 1..Len(l) :
             (l[i].status = "pending" /\ l[j].status = "completed") => i < j
        /\ \A i \in 1..(Len(l) - 1) :
             (l[i].status = l[i + 1].status /\ HasId(l[i + 1])) =>
                 HasId(l[i]) /\ l[i].id >= l[i + 1].id

\* C17 witness: a collection given in the opposite order (completed first,
\* the record without id before the one with the highest id) is projected
\* to three records: pending 3, pending without id, completed.
C17_Witness ==
    /\ last.op = "project"
    /\ Len(last.in.tasks) = 3
    /\ last.in.tasks[1].status = "completed"
    /\ ~HasId(last.in.tasks[2])
    /\ Len(last.out) = 3
    /\ HasId(last.out[1]) /\ last.out[1].id = 3
    /\ ~HasId(last.out[2]) /\ last.out[2].status = "pending"
    /\ last.out[3].status = "completed"

\* how many times record r stands in sequence s
Count(s, r) == Cardinality({ k \in 1..Len(s) : s[k] = r })

\* the texts (exactly one) that are s in lower case without the spaces at
\* its two ends
TrimmedLower(s) ==
    { [k \in 1..(b[2] - b[1] + 1) |-> ToLowerChar(s[b[1] + k - 1])] :
        b \in { c \in (1..(Len(s) + 1)) \X (0..Len(s)) :
                  /\ c[2] >= c[1] - 1
                  /\ \A k \in 1..Len(s) : (k < c[1] \/ k > c[2]) => s[k] = Space
                  /\ c[2] >= c[1] => s[c[1]] # Space /\ s[c[2]] # Space } }

\* text q occurs in field f of record t, letter case aside
Occurs(q, t, f) ==
    /\ f \in DOMAIN t
    /\ \E i \in 1..Len(t[f]) :
         /\ i + Len(q) - 1 <= Len(t[f])
         /\ \A k \in 1..Len(q) : ToLowerChar(t[f][i + k - 1]) = q[k]

\* C18: the projected list holds exactly the records that pass both
\* filters, each as often as the collection holds it: a record passes the
\* status filter when the mode is all or equals its status, and the query
\* filter when the trimmed lower-case query is empty or occurs in its
\* lower-case title or description.  The collection is as it was.
C18_ProjectionExact ==
    last.op = "project" =>
        LET in == last.in
            Passes(t) ==
                /\ in.filter = "all" \/ t.status = in.filter
                /\ \E q \in TrimmedLower(in.query) :
                     q = <<>> \/ Occurs(q, t, "title") \/ Occurs(q, t, "description")
        IN  /\ tasks = in.tasks
            /\ \A k \in 1..Len(last.out) :
                 \E j \in 1..Len(in.tasks) : in.tasks[j] = last.out[k]
            /\ \A j \in 1..Len(in.tasks) :
                 Count(last.out, in.tasks[j]) =
                     IF Passes(in.tasks[j]) THEN Count(in.tasks, in.tasks[j]) ELSE 0

\* C18 witness: with mode pending and the query " AB " a collection of
\* three is projected to the one pending record whose title contains "ab"
\* in another letter case; a completed record that matches the query and a
\* pending record that does not are left out.
C18_Witness ==
    /\ last.op = "project"
    /\ last.in.filter = "pending"
    /\ last.in.query = <<Space, "A", "B", Space>>
    /\ Len(last.in.tasks) = 3
    /\ \E k \in 1..3 : last.in.tasks[k].status = "completed"
                       /\ Occurs(<<"a", "b">>, last.in.tasks[k], "description")
    /\ \E k \in 1..3 : last.in.tasks[k].status = "pending"
                       /\ ~Occurs(<<"a", "b">>, last.in.tasks[k], "title")
    /\ Len(last.out) = 1
    /\ last.out[1].title = <<"A", "b">>

\* C19: the body of the create or replace call has the three fields title,
\* description and status: the title is the payload's, the description is
\* the payload's or the empty text when the payload has none, the status is
\* the payload's or "pending" when the payload has none (or an empty one);
\* {title: 'Pay rent'} goes out as {title: 'Pay rent', description: '',
\* status: 'pending'}.
C19_BodyCompleted ==
    last.op = "send" =>
        LET p == last.in
            b == last.call.body
        IN  /\ last.call.op \in {"create", "update"}
            /\ DOMAIN b = {"title", "description", "status"}
            /\ b.title = p.title
            /\ b.description = IF "description" \in DOMAIN p THEN p.description
                                                             ELSE <<>>
            /\ b.status = IF "status" \in DOMAIN p /\ p.status # ""
                          THEN p.status ELSE "pending"
            /\ p = [title |-> PayRent] =>
                 b = [title |-> PayRent, description |-> <<>>, status |-> "pending"]

\* C19 witness: the payload {title: 'Pay rent'} has been sent with a create
\* call whose body has the empty description and the status pending.
C19_Witness ==
    /\ last.op = "send"
    /\ last.in = [title |-> PayRent]
    /\ last.call.op = "create"
    /\ last.call.body =
         [title |-> PayRent, description |-> <<>>, status |-> "pending"]

\* the message the gateway's error is to carry for a non-2xx response r: the
\* body's non-empty detail, else its non-empty message, else the fallback
\* text; a detail that is not a string appears as its JSON text
ErrorMessageFor(r) ==
    LET j   == r.body.json
        Has(f) == r.body.parses /\ j.t = "object" /\ f \in DOMAIN j
                  /\ j[f] # JString("") /\ j[f] # JNull
        Text(x) == IF x.t = "string" THEN x.v ELSE stringify(x)
    IN  IF Has("detail") THEN Text(j.detail)
        ELSE IF Has("message") THEN Text(j.message)
        ELSE "Request failed with " \o ToString(r.status) \o " " \o r.statusText

\* what the gateway owes a non-2xx response r: one thrown error with the
\* numeric status and the message above; with an unparseable body the
\* fallback message and no detail
NonOkNormalized(r, o) ==
    r.status \notin 200..299 =>
        /\ o.kind = "throw"
        /\ o.err.type = "Error"
        /\ o.err.status = r.status
        /\ o.err.message = ErrorMessageFor(r)
        /\ ~r.body.parses =>
             /\ o.err.message =
                  "Request failed with " \o ToString(r.status) \o " " \o r.statusText
             /\ o.err.detail = JNull

\* C20 as stated: every non-2xx response becomes one normalized error with
\* status and message (detail, else message, else fallback; fallback and no
\* detail when the body does not parse), a 2xx response never yields an
\* error, and a 204 yields an empty result.
C20_AsStated ==
    last.op = "request" =>
        /\ NonOkNormalized(last.in, last.out)
        /\ last.in.status \in 200..299 => last.out.kind = "return"
        /\ last.in.status = 204 => last.out = [kind |-> "return", value |-> JNull]

\* C20, amended: every non-2xx response becomes one normalized error as
\* above; a 204 yields an empty result; any other 2xx response yields its
\* parsed body when the body parses as JSON, and otherwise fails with the
\* parser's error, which carries no status.
C20_ResponseHandling ==
    last.op = "request" =>
        /\ NonOkNormalized(last.in, last.out)
        /\ last.in.status = 204 => last.out = [kind |-> "return", value |-> JNull]
        /\ (last.in.status \in 200..299 /\ last.in.status # 204) =>
             IF last.in.body.parses
             THEN last.out = [kind |-> "return", value |-> last.in.body.json]
             ELSE /\ last.out.kind = "throw"
                  /\ last.out.err.type = "SyntaxError"
                  /\ "status" \notin DOMAIN last.out.err

\* C20 witness: a 404 whose body does not parse has been turned into the
\* error "Request failed with 404 Not Found" with status 404 and no detail.
C20_Witness ==
    /\ last.op = "request"
    /\ last.in.status = 404
    /\ ~last.in.body.parses
    /\ last.out.kind = "throw"
    /\ last.out.err.message = "Request failed with 404 Not Found"
    /\ last.out.err.status = 404
    /\ last.out.err.detail = JNull

\* C21: the settlement of a toggle or of a replace never inserts a record.
\* Such a step, successful or failed, leaves the collection's length and
\* the id held at every position as they were, hence the set of ids too;
\* and when no record of the call's id is held as it settles (an
\* overlapping delete took it out), the collection is left exactly as it
\* was.
C21_SettlementNeverInserts ==
    [][(/\ last'.op \in {"toggleOk", "toggleErr", "updateOk", "updateErr"}
        /\ Len(calls') < Len(calls)) =>
         /\ last'.call.op \in {"patch", "update"}
         /\ Len(tasks') = Len(tasks)
         /\ \A k \in 1..Len(tasks) : tasks'[k].id = tasks[k].id
         /\ IdsOf(tasks') = IdsOf(tasks)
         /\ ~Present(last'.call.id) => tasks' = tasks]_vars

\* C21 witness: a toggle has just settled successfully while the delete of
\* the same id is still in flight; the id is not in the collection, which
\* still holds the other record.
C21_Witness ==
    /\ last.op = "toggleOk"
    /\ last.call.data.id = last.call.id
    /\ last.call.id \in deletingIds
    /\ \E i \in 1..Len(calls) : calls[i].op = "delete" /\ calls[i].id = last.call.id
    /\ ~Present(last.call.id)
    /\ Len(tasks) >= 1

====
